---- MODULE Spec2Model ----
(***************************************************************************)
(* Model of the logging helpers of app_common/app_utils.py (do_log and     *)
(* do_log_2).  A Python value is a tagged record, a Python string is a     *)
(* sequence of one-character strings, and an emitted line is a record that *)
(* carries its text together with what the line stands for.                *)
(***************************************************************************)
EXTENDS Integers, Sequences, FiniteSets, TLC

\* ------------------------------------------------------------------ bounds
MaxStrLen == 3
MaxPairs == 2
MaxElems == 3
MaxLimit == 12
MaxSample == 3

\* ------------------------------------------------------- Python values
Str(s) == [t |-> "str", v |-> s]
Num(n) == [t |-> "num", v |-> n]
Bool(b) == [t |-> "bool", v |-> b]
None == [t |-> "none", v |-> 0]
Dict(items) == [t |-> "dict", v |-> items]
List(elems) == [t |-> "list", v |-> elems]

Min(a, b) == IF a <= b THEN a ELSE b
Max(a, b) == IF a >= b THEN a ELSE b

Digit == <<"0", "1", "2", "3", "4", "5", "6", "7", "8", "9">>

RECURSIVE StrOfNat(_)
StrOfNat(n) ==
    IF n < 10 THEN <<Digit[n + 1]>>
    ELSE StrOfNat(n \div 10) \o <<Digit[(n % 10) + 1]>>

\* str(x) of a scalar
PyStr(x) ==
    CASE x.t = "str" -> x.v
      [] x.t = "num" -> StrOfNat(x.v)
      [] x.t = "bool" -> (IF x.v THEN <<"T", "r", "u", "e">>
                          ELSE <<"F", "a", "l", "s", "e">>)
      [] x.t = "none" -> <<"N", "o", "n", "e">>

\* s[0:n]
Slice(s, n) ==
    IF n >= 0 THEN SubSeq(s, 1, Min(n, Len(s)))
    ELSE SubSeq(s, 1, Max(0, Len(s) + n))

RECURSIVE Repeat(_, _)
Repeat(s, n) == IF n <= 0 THEN <<>> ELSE s \o Repeat(s, n - 1)

\* the one character U+2026, written here as a single token
ellipsis_chars == <<"(ellipsis)">>
ellipsis_len == Len(ellipsis_chars)
base_chars_for_indent == <<"-", "-">>

\* do_log_2._indent
_indent(level) == Repeat(base_chars_for_indent, level)

_is_str_or_number_or_bool(x) == x.t \in {"str", "num", "bool"}

_only_contains_str_or_number_or_bool(xs) ==
    \A i \in 1..Len(xs) : _is_str_or_number_or_bool(xs[i])

\* the truncation of a scalar's text: s[:log_limit] + ellipsis when too long
TruncateAlways(s, log_limit) == Slice(s, log_limit) \o ellipsis_chars
TruncateNoEllipsis(s, log_limit) == Slice(s, log_limit)
Truncate(s, log_limit) ==
    IF Len(s) > log_limit THEN Slice(s, log_limit) \o ellipsis_chars ELSE s

DictTypeText ==
    <<"[", "T", "Y", "P", "E", ":", " ", "<", "c", "l", "a", "s", "s", " ",
      "'", "d", "i", "c", "t", "'", ">", "]">>
ListTypeText ==
    <<"[", "T", "Y", "P", "E", ":", " ", "<", "c", "l", "a", "s", "s", " ",
      "'", "l", "i", "s", "t", "'", ">", "]">>
KeyCountText == <<";", " ", "K", "e", "y", " ", "c", "o", "u", "n", "t", " ", "=", " ">>
SizeText == <<";", " ", "S", "i", "z", "e", " ", "=", " ">>
SampleText == <<";", " ", "S", "a", "m", "p", "l", "e", ":">>

\* one element of output_lines
Line(kind, level, text, entries) ==
    [kind |-> kind, level |-> level, text |-> text, entries |-> entries]

\* ------------------------------------------------- packing of a mapping
\* the index of the pair of items whose key equals k, 0 when there is none
\* (current_obj[k] then raises KeyError)
FindKey(items, k) ==
    IF \E i \in 1..Len(items) : items[i][1] = k
    THEN CHOOSE i \in 1..Len(items) : items[i][1] = k
    ELSE 0

\* the sort key of keys.sort: len(str(k)) + len(str(current_obj[k]))
PairWeight(items, i) == Len(PyStr(items[i][1])) + Len(PyStr(items[i][2]))

\* the keys in the order of the mapping, the sort left out
KeysAsInserted(items) == [r \in 1..Len(items) |-> r]

\* keys = list(current_obj.keys()); keys.sort(...): a stable ascending sort,
\* given as the sequence of the positions of the keys in the mapping
SortedKeys(items) ==
    LET n == Len(items)
        Rank(i) == 1 + Cardinality({j \in 1..n :
                        \/ PairWeight(items, j) < PairWeight(items, i)
                        \/ PairWeight(items, j) = PairWeight(items, i) /\ j < i})
    IN [r \in 1..n |-> CHOOSE i \in 1..n : Rank(i) = r]

\* the first try with the length of the line left out of the comparison
FitPairIgnoringLine(line, pre, key, value, log_limit) ==
    LET full == pre \o key \o <<"=">> \o value
    IN  IF Len(full) <= log_limit THEN [form |-> 1, text |-> full]
        ELSE [form |-> 0, text |-> <<>>]

\* the four tries with the partial key tried before the partial value
FitPairKeyFirst(line, pre, key, value, log_limit) ==
    LET full == pre \o key \o <<"=">> \o value
        kv2 == pre \o key \o <<"=">>
        left2 == log_limit - Len(line) - Len(kv2) - ellipsis_len
        t2 == kv2 \o Slice(value, Max(0, left2)) \o ellipsis_chars
        left3 == log_limit - Len(line) - Len(pre) - ellipsis_len - 1 - Len(value)
        t3 == pre \o Slice(key, Max(0, left3)) \o ellipsis_chars \o <<"=">> \o value
    IN  IF Len(line) + Len(full) <= log_limit THEN [form |-> 1, text |-> full]
        ELSE IF left3 > 0 /\ Len(line) + Len(t3) <= log_limit
             THEN [form |-> 3, text |-> t3]
        ELSE IF left2 > 0 /\ Len(line) + Len(t2) <= log_limit
             THEN [form |-> 2, text |-> t2]
        ELSE [form |-> 0, text |-> <<>>]

\* the four tries of the loop body; form 0 when none of them fits
FitPair(line, pre, key, value, log_limit) ==
    LET full == pre \o key \o <<"=">> \o value
        kv2 == pre \o key \o <<"=">>
        left2 == log_limit - Len(line) - Len(kv2) - ellipsis_len
        t2 == kv2 \o Slice(value, Max(0, left2)) \o ellipsis_chars
        left3 == log_limit - Len(line) - Len(pre) - ellipsis_len - 1 - Len(value)
        t3 == pre \o Slice(key, Max(0, left3)) \o ellipsis_chars \o <<"=">> \o value
        left4 == log_limit - Len(line) - Len(pre) - ellipsis_len - 1 - ellipsis_len
        partial_len == left4 \div 2
        partial_key == IF Len(key) <= partial_len THEN key
                       ELSE Slice(key, Max(0, partial_len)) \o ellipsis_chars
        partial_value == IF Len(value) <= partial_len THEN value
                         ELSE Slice(value, Max(0, partial_len)) \o ellipsis_chars
        t4 == pre \o partial_key \o <<"=">> \o partial_value
    IN  IF Len(line) + Len(full) <= log_limit THEN [form |-> 1, text |-> full]
        ELSE IF left2 > 0 /\ Len(line) + Len(t2) <= log_limit
             THEN [form |-> 2, text |-> t2]
        ELSE IF left3 > 0 /\ Len(line) + Len(t3) <= log_limit
             THEN [form |-> 3, text |-> t3]
        ELSE IF left4 > 1 /\ Len(line) + Len(t4) <= log_limit
             THEN [form |-> 4, text |-> t4]
        ELSE [form |-> 0, text |-> <<>>]

\* the state of the packing loop before its first iteration
PackStart(level, count) ==
    [idx |-> 0, line |-> _indent(level + 1), on_first |-> TRUE, out |-> <<>>,
     cur |-> <<>>, attempts |-> [i \in 1..count |-> 0], raised |-> "none"]

\* the loop with a pair that fits no fresh line tried again, up to three
\* times in all, before it is given up
RECURSIVE PackPairsRetryingOnEmptyLine(_, _, _, _, _)
PackPairsRetryingOnEmptyLine(items, keys, level, log_limit, p) ==
    LET empty == _indent(level + 1) IN
    IF p.idx >= Len(keys)
    THEN IF p.line # empty
         THEN [p EXCEPT !.out = Append(p.out, Line("packed", level + 1, p.line, p.cur))]
         ELSE p
    ELSE
      LET k == keys[p.idx + 1]
          key == PyStr(items[k][1])
          j == FindKey(items, Str(key))
      IN IF j = 0 THEN [p EXCEPT !.raised = "KeyError"]
         ELSE
           LET value == PyStr(items[j][2])
               pending == Len(p.line) >= log_limit
               out1 == IF pending
                       THEN Append(p.out, Line("packed", level + 1, p.line, p.cur))
                       ELSE p.out
               line1 == IF pending THEN empty ELSE p.line
               first1 == IF pending THEN TRUE ELSE p.on_first
               cur1 == IF pending THEN <<>> ELSE p.cur
               pre == IF first1 THEN <<>> ELSE <<" ">>
               r == FitPair(line1, pre, key, value, log_limit)
               att == [p.attempts EXCEPT ![k] = @ + 1]
           IN IF r.form > 0
              THEN PackPairsRetryingOnEmptyLine(items, keys, level, log_limit,
                     [p EXCEPT !.idx = @ + 1, !.line = line1 \o r.text,
                               !.on_first = FALSE, !.out = out1,
                               !.cur = Append(cur1, [k |-> k, form |-> r.form,
                                                     text |-> r.text]),
                               !.attempts = att])
              ELSE IF line1 # empty
              THEN PackPairsRetryingOnEmptyLine(items, keys, level, log_limit,
                     [p EXCEPT !.line = empty, !.on_first = TRUE,
                               !.out = Append(out1, Line("packed", level + 1, line1, cur1)),
                               !.cur = <<>>, !.attempts = att])
              ELSE IF att[k] < 3
              THEN PackPairsRetryingOnEmptyLine(items, keys, level, log_limit,
                     [p EXCEPT !.line = line1, !.on_first = FALSE,
                               !.out = out1, !.cur = cur1, !.attempts = att])
              ELSE PackPairsRetryingOnEmptyLine(items, keys, level, log_limit,
                     [p EXCEPT !.idx = @ + 1, !.line = line1, !.on_first = FALSE,
                               !.out = out1, !.cur = cur1, !.attempts = att])

\* "while key_idx < key_count" with the store of the pending content after it
RECURSIVE PackPairs(_, _, _, _, _)
PackPairs(items, keys, level, log_limit, p) ==
    LET empty == _indent(level + 1) IN
    IF p.idx >= Len(keys)
    THEN IF p.line # empty
         THEN [p EXCEPT !.out = Append(p.out, Line("packed", level + 1, p.line, p.cur))]
         ELSE p
    ELSE
      LET k == keys[p.idx + 1]
          key == PyStr(items[k][1])
          j == FindKey(items, Str(key))
      IN IF j = 0 THEN [p EXCEPT !.raised = "KeyError"]
         ELSE
           LET value == PyStr(items[j][2])
               pending == Len(p.line) >= log_limit
               out1 == IF pending
                       THEN Append(p.out, Line("packed", level + 1, p.line, p.cur))
                       ELSE p.out
               line1 == IF pending THEN empty ELSE p.line
               first1 == IF pending THEN TRUE ELSE p.on_first
               cur1 == IF pending THEN <<>> ELSE p.cur
               pre == IF first1 THEN <<>> ELSE <<" ">>
               r == FitPair(line1, pre, key, value, log_limit)
               att == [p.attempts EXCEPT ![k] = @ + 1]
           IN IF r.form > 0
              THEN PackPairs(items, keys, level, log_limit,
                     [p EXCEPT !.idx = @ + 1, !.line = line1 \o r.text,
                               !.on_first = FALSE, !.out = out1,
                               !.cur = Append(cur1, [k |-> k, form |-> r.form,
                                                     text |-> r.text]),
                               !.attempts = att])
              ELSE IF line1 # empty
              THEN PackPairs(items, keys, level, log_limit,
                     [p EXCEPT !.line = empty, !.on_first = TRUE,
                               !.out = Append(out1, Line("packed", level + 1, line1, cur1)),
                               !.cur = <<>>, !.attempts = att])
              ELSE PackPairs(items, keys, level, log_limit,
                     [p EXCEPT !.idx = @ + 1, !.line = line1, !.on_first = FALSE,
                               !.out = out1, !.cur = cur1, !.attempts = att])

\* ---------------------------------------------------- packing of a list
\* the first try of an element with the length of the line left out of
\* the comparison
FitElemIgnoringLine(line, pre, prefix, elem, log_limit) ==
    LET full == pre \o prefix \o elem
    IN  IF Len(full) <= log_limit THEN [form |-> 1, text |-> full]
        ELSE [form |-> 0, text |-> <<>>]

\* the two tries of the loop body; form 0 when none of them fits
FitElem(line, pre, prefix, elem, log_limit) ==
    LET full == pre \o prefix \o elem
        e2 == pre \o prefix
        left2 == log_limit - Len(line) - Len(e2) - ellipsis_len
        t2 == e2 \o Slice(elem, Max(0, left2)) \o ellipsis_chars
    IN  IF Len(line) + Len(full) <= log_limit THEN [form |-> 1, text |-> full]
        ELSE IF left2 > 0 /\ Len(line) + Len(t2) <= log_limit
             THEN [form |-> 2, text |-> t2]
        ELSE [form |-> 0, text |-> <<>>]

\* "while elem_idx < elem_count" with the store of the pending content after it
RECURSIVE PackElems(_, _, _, _, _)
PackElems(elems, elem_count, level, log_limit, p) ==
    LET empty == _indent(level + 1) IN
    IF p.idx >= elem_count
    THEN IF p.line # empty
         THEN [p EXCEPT !.out = Append(p.out, Line("packed", level + 1, p.line, p.cur))]
         ELSE p
    ELSE
      LET k == p.idx + 1
          elem == PyStr(elems[k])
          pending == Len(p.line) >= log_limit
          out1 == IF pending
                  THEN Append(p.out, Line("packed", level + 1, p.line, p.cur))
                  ELSE p.out
          line1 == IF pending THEN empty ELSE p.line
          first1 == IF pending THEN TRUE ELSE p.on_first
          cur1 == IF pending THEN <<>> ELSE p.cur
          pre == IF first1 THEN <<>> ELSE <<" ">>
          prefix == <<"[">> \o StrOfNat(k - 1) \o <<"]", "=">>
          r == FitElem(line1, pre, prefix, elem, log_limit)
          att == [p.attempts EXCEPT ![k] = @ + 1]
      IN IF r.form > 0
         THEN PackElems(elems, elem_count, level, log_limit,
                [p EXCEPT !.idx = @ + 1, !.line = line1 \o r.text,
                          !.on_first = FALSE, !.out = out1,
                          !.cur = Append(cur1, [k |-> k, form |-> r.form,
                                                text |-> r.text]),
                          !.attempts = att])
         ELSE IF line1 # empty
         THEN PackElems(elems, elem_count, level, log_limit,
                [p EXCEPT !.line = empty, !.on_first = TRUE,
                          !.out = Append(out1, Line("packed", level + 1, line1, cur1)),
                          !.cur = <<>>, !.attempts = att])
         ELSE PackElems(elems, elem_count, level, log_limit,
                [p EXCEPT !.idx = @ + 1, !.line = line1, !.on_first = FALSE,
                          !.out = out1, !.cur = cur1, !.attempts = att])

\* ------------------------------------------------------------ do_log_2
\* the positions of the pairs or elements the packed lines carry, in order
RECURSIVE EntriesOf(_)
EntriesOf(lines) ==
    IF lines = <<>> THEN <<>>
    ELSE [i \in 1..Len(Head(lines).entries) |-> Head(lines).entries[i].k]
         \o EntriesOf(Tail(lines))

\* what is remembered of the treatment of one mapping or list
Visit(t, level, size, simple, order, attempts) ==
    [t |-> t, level |-> level, size |-> size, simple |-> simple,
     order |-> order, attempts |-> attempts]

Reversed(xs) == [i \in 1..Len(xs) |-> xs[Len(xs) + 1 - i]]

\* the order in which the non-packing branch walks the pairs of a mapping to
\* write the key header lines and to stack the values
DictWalk2(items) == Reversed(items)

\* the sampled elements of a list whose elements are not all simple
ComplexSample(elems, list_sample_size) == Slice(elems, 2)

\* "while stack" of do_log_2: stack holds (object, level) pairs, the top is
\* its last element; the result holds output_lines, or the exception raised
RECURSIVE Run2(_, _, _, _, _)
Run2(stack, out, visits, log_limit, list_sample_size) ==
    IF stack = <<>> THEN [out |-> out, visits |-> visits, raised |-> "none"]
    ELSE
      LET current_obj == stack[Len(stack)].o
          level == stack[Len(stack)].level
          rest == SubSeq(stack, 1, Len(stack) - 1)
          xs == current_obj.v
      IN
      IF current_obj.t = "str"
      THEN Run2(rest,
                Append(out, Line("scalar", level,
                                 _indent(level) \o Truncate(xs, log_limit), <<>>)),
                visits, log_limit, list_sample_size)
      ELSE IF current_obj.t = "dict"
      THEN
        LET header == Line("dict_header", level,
                           _indent(level) \o DictTypeText \o KeyCountText
                           \o StrOfNat(Len(xs)), <<>>)
            keys_are_simple ==
                _only_contains_str_or_number_or_bool([i \in 1..Len(xs) |-> xs[i][1]])
            values_are_simple ==
                _only_contains_str_or_number_or_bool([i \in 1..Len(xs) |-> xs[i][2]])
        IN
        IF keys_are_simple /\ values_are_simple
        THEN LET p == PackPairs(xs, SortedKeys(xs), level, log_limit,
                                PackStart(level, Len(xs)))
             IN IF p.raised # "none"
                THEN [out |-> out, visits |-> visits, raised |-> p.raised]
                ELSE Run2(rest, Append(out, header) \o p.out,
                          Append(visits, Visit("dict", level, Len(xs), TRUE,
                                               EntriesOf(p.out), p.attempts)),
                          log_limit, list_sample_size)
        ELSE
          \* _indent(...) + key raises TypeError when key is not a string
          IF \E i \in 1..Len(xs) : xs[i][1].t # "str"
          THEN [out |-> out, visits |-> visits, raised |-> "TypeError"]
          ELSE Run2(rest \o [i \in 1..Len(xs) |->
                               [o |-> DictWalk2(xs)[i][2], level |-> level + 2]],
                    Append(out, header)
                    \o [i \in 1..Len(xs) |->
                          Line("key", level + 1,
                               _indent(level + 1) \o DictWalk2(xs)[i][1].v, <<>>)],
                    Append(visits, Visit("dict", level, Len(xs), FALSE,
                                         [i \in 1..Len(xs) |->
                                            FindKey(xs, DictWalk2(xs)[i][1])], <<>>)),
                    log_limit, list_sample_size)
      ELSE IF current_obj.t = "list"
      THEN
        LET header == Line("list_header", level,
                           _indent(level) \o ListTypeText \o SizeText
                           \o StrOfNat(Len(xs)) \o SampleText, <<>>)
            elems_are_simple == _only_contains_str_or_number_or_bool(xs)
        IN
        IF elems_are_simple
        THEN LET elem_count == Min(Len(xs), list_sample_size)
                 p == PackElems(xs, elem_count, level, log_limit,
                                PackStart(level, Len(xs)))
             IN Run2(rest, Append(out, header) \o p.out,
                     Append(visits, Visit("list", level, Len(xs), TRUE,
                                          EntriesOf(p.out), p.attempts)),
                     log_limit, list_sample_size)
        ELSE
          LET sample == ComplexSample(xs, list_sample_size)
          IN Run2(rest \o [i \in 1..Len(sample) |->
                             [o |-> Reversed(sample)[i], level |-> level + 1]],
                  Append(out, header),
                  Append(visits, Visit("list", level, Len(xs), FALSE,
                                       [i \in 1..Len(sample) |-> i], <<>>)),
                  log_limit, list_sample_size)
      ELSE Run2(rest,
                Append(out, Line("scalar", level,
                                 _indent(level) \o Truncate(PyStr(current_obj), log_limit),
                                 <<>>)),
                visits, log_limit, list_sample_size)

\* -------------------------------------------------------------- do_log
\* do_log._indent
_indent_1(level) == <<"\n">> \o Repeat(<<"-", "-", "-">>, level)

\* the order in which do_log walks the pairs of a mapping to write the key
\* header lines and to stack the values
DictWalk(items) == Reversed(items)

RECURSIVE Run1(_, _, _, _)
Run1(stack, out, visits, log_limit) ==
    IF stack = <<>> THEN [out |-> out, visits |-> visits, raised |-> "none"]
    ELSE
      LET current_obj == stack[Len(stack)].o
          level == stack[Len(stack)].level
          rest == SubSeq(stack, 1, Len(stack) - 1)
          xs == current_obj.v
      IN
      IF current_obj.t = "str"
      THEN Run1(rest,
                Append(out, Line("scalar", level,
                                 _indent_1(level) \o Truncate(xs, log_limit)
                                 \o <<"\n">>, <<>>)),
                visits, log_limit)
      ELSE IF current_obj.t = "dict"
      THEN
        LET header == Line("dict_header", level,
                           _indent_1(level) \o DictTypeText \o <<"\n">>, <<>>)
            walk == DictWalk(xs)
        IN
        IF \E i \in 1..Len(xs) : xs[i][1].t # "str"
        THEN [out |-> out, visits |-> visits, raised |-> "TypeError"]
        ELSE Run1(rest \o [i \in 1..Len(xs) |->
                             [o |-> walk[i][2], level |-> level + 2]],
                  Append(out, header)
                  \o [i \in 1..Len(xs) |->
                        Line("key", level + 1,
                             _indent_1(level + 1) \o walk[i][1].v \o <<"\n">>, <<>>)],
                  Append(visits, Visit("dict", level, Len(xs), FALSE,
                                       [i \in 1..Len(xs) |-> FindKey(xs, walk[i][1])],
                                       <<>>)),
                  log_limit)
      ELSE IF current_obj.t = "list"
      THEN
        LET header == Line("list_header", level,
                           _indent_1(level) \o ListTypeText
                           \o <<" ", "S", "a", "m", "p", "l", "e", ":", "\n">>, <<>>)
            sample == Slice(xs, 2)
        IN Run1(rest \o [i \in 1..Len(sample) |->
                           [o |-> Reversed(sample)[i], level |-> level + 1]],
                Append(out, header),
                Append(visits, Visit("list", level, Len(xs), FALSE,
                                     [i \in 1..Len(sample) |-> i], <<>>)),
                log_limit)
      ELSE Run1(rest,
                Append(out, Line("scalar", level,
                                 _indent_1(level)
                                 \o Truncate(PyStr(current_obj), log_limit)
                                 \o <<"\n">>, <<>>)),
                visits, log_limit)

\* ------------------------------------------------ the input value afterwards
\* what keys.sort leaves in the mapping: it sorts the list made by
\* list(current_obj.keys()), the mapping keeps its order
SortInPlace(items) == [r \in 1..Len(items) |-> items[SortedKeys(items)[r]]]
MappingAfterSort(items) == items

\* the input value as do_log_2 leaves it
RECURSIVE AfterDoLog2(_)
AfterDoLog2(o) ==
    IF o.t = "dict"
    THEN IF /\ _only_contains_str_or_number_or_bool([i \in 1..Len(o.v) |-> o.v[i][1]])
            /\ _only_contains_str_or_number_or_bool([i \in 1..Len(o.v) |-> o.v[i][2]])
         THEN Dict(MappingAfterSort(o.v))
         ELSE Dict([i \in 1..Len(o.v) |-> <<o.v[i][1], AfterDoLog2(o.v[i][2])>>])
    ELSE IF o.t = "list"
    THEN IF _only_contains_str_or_number_or_bool(o.v) THEN o
         ELSE List([i \in 1..Len(o.v) |-> IF i <= 2 THEN AfterDoLog2(o.v[i]) ELSE o.v[i]])
    ELSE o

\* what the slice current_obj[:2] leaves in the list: the slice is a copy
ListAfterSample(elems) == elems

\* the input value as do_log leaves it
RECURSIVE AfterDoLog(_)
AfterDoLog(o) ==
    IF o.t = "dict"
    THEN Dict([i \in 1..Len(o.v) |-> <<o.v[i][1], AfterDoLog(o.v[i][2])>>])
    ELSE IF o.t = "list"
    THEN List([i \in 1..Len(ListAfterSample(o.v)) |->
                 IF i <= 2 THEN AfterDoLog(ListAfterSample(o.v)[i])
                 ELSE ListAfterSample(o.v)[i]])
    ELSE o

\* ------------------------------------------------------------- the inputs
Alphabet == {"a", "b"}
StrsUpTo(n) == UNION {[1..k -> Alphabet] : k \in 0..n}

SeqsUpTo(S, n) == UNION {[1..k -> S] : k \in 0..n}

TopScalars == {Str(s) : s \in StrsUpTo(MaxStrLen)} \cup {Num(12), Bool(FALSE), None}

KeyPool == {Str(<<"a">>), Str(<<"b", "b", "a", "b">>), Num(1)}
SimplePool ==
    {Str(<<>>), Str(<<"b">>), Str(<<"a", "b", "a", "b", "a">>), Num(12), Bool(TRUE)}
InnerDict == Dict(<< <<Str(<<"a">>), Str(<<"b">>)>> >>)
InnerList == List(<<Str(<<"a">>), Num(7), Str(<<"b">>)>>)
ValuePool == SimplePool \cup {None, InnerList, InnerDict}
ElemPool == {Str(<<"b">>), Str(<<"a", "b", "a", "b", "a">>), Num(12), None, InnerDict}

\* a mapping has unique keys
Dicts ==
    {Dict(items) : items \in
        {s \in SeqsUpTo(KeyPool \X ValuePool, MaxPairs) :
            \A i, j \in 1..Len(s) : i # j => s[i][1] # s[j][1]}}
Lists == {List(elems) : elems \in SeqsUpTo(ElemPool, MaxElems)}

Inputs == TopScalars \cup Dicts \cup Lists

\* --------------------------------------------------------- state machine
\* the logging helpers
VARIABLES obj, log_limit, list_sample_size, pc, output_lines, visits, raised

\* a BaseLambdaHandler instance (event, context, body, headers, job_return),
\* the hooks one invocation went through (trace), what the environment and
\* the subclass hooks did in it (hooks), how the call ended (outcome) and
\* how many calls were made on the instance (calls)
VARIABLES event, context, body, headers, job_return, trace, hooks, outcome,
          calls

\* one call of a function wrapped by retry_on_failure(max_attempts, delay):
\* the counter of the wrapper (attempts), what each invocation of the
\* wrapped function did (func_log), the delays slept (sleeps), the steps
\* deploy_module ran (step_log), where the wrapper is (rpc) and what it
\* returned (wrapper_result)
VARIABLES max_attempts, delay, attempts, func_log, sleeps, step_log, rpc,
          wrapper_result

\* a DynamoDBBase instance: the value given to __convert_to_decimal (item)
\* and its result (converted), the items of the table (table), the
\* arguments of _get_last_items_by_key or _get_by_keys (query) and their
\* results (last_items, items_by_keys)
VARIABLES item, converted, table, query, last_items, items_by_keys, dbpc

\* one call of la_utils.get_first_non_none(*args, **kwargs) and what it
\* returned (first_non_none)
VARIABLES args, kwargs, first_non_none, upc

\* one run of deploy_all.main: what the checks before the loop gave
\* (checks), the directories found (subdirs), what deploy_module did for
\* each directory tried so far (deployed), success_count, where main is
\* (mpc) and the exit status of the process (exit_status)
VARIABLES checks, subdirs, deployed, success_count, mpc, exit_status

logvars == <<obj, log_limit, list_sample_size, pc, output_lines, visits, raised>>
hvars == <<event, context, body, headers, job_return, trace, hooks, outcome,
           calls>>
rvars == <<max_attempts, delay, attempts, func_log, sleeps, step_log, rpc,
           wrapper_result>>
dbvars == <<item, converted, table, query, last_items, items_by_keys, dbpc>>
uvars == <<args, kwargs, first_non_none, upc>>
mvars == <<checks, subdirs, deployed, success_count, mpc, exit_status>>
vars == <<logvars, hvars, rvars, dbvars, uvars, mvars>>

\* no value is being logged
LogIdle ==
    /\ obj = None
    /\ log_limit = 0
    /\ list_sample_size = 2
    /\ pc = "idle"
    /\ output_lines = <<>>
    /\ visits = <<>>
    /\ raised = "none"

NoHooks == [security |-> "none", before |-> "none", handle |-> "none",
            handle_return |-> None, after |-> "none", error_topic |-> FALSE,
            listeners |-> 0]
NoOutcome == [kind |-> "none", exc |-> "none", value |-> None]

\* BaseLambdaHandler.__init__
HandlerInit ==
    /\ event = None
    /\ context = "None"
    /\ body = None
    /\ headers = None
    /\ job_return = None
    /\ trace = <<>>
    /\ hooks = NoHooks
    /\ outcome = NoOutcome
    /\ calls = 0

\* no wrapped function is being called
RetryIdle ==
    /\ max_attempts = 3
    /\ delay = 5
    /\ attempts = 0
    /\ func_log = <<>>
    /\ sleeps = <<>>
    /\ step_log = <<>>
    /\ rpc = "idle"
    /\ wrapper_result = NoOutcome

\* no DynamoDBBase method is being called
DynamoIdle ==
    /\ item = None
    /\ converted = None
    /\ table = {}
    /\ query = [key_value |-> "none", k |-> 0, scan_index_forward |-> FALSE]
    /\ last_items = None
    /\ items_by_keys = None
    /\ dbpc = "idle"

\* get_first_non_none is not being called
UtilsIdle ==
    /\ args = <<>>
    /\ kwargs = <<>>
    /\ first_non_none = None
    /\ upc = "idle"

\* neither "aws sso login" nor shutil.which("python3.11") has been run
NoChecks == [login |-> "none", python |-> "none"]

\* deploy_all.main is not running
MainIdle ==
    /\ checks = NoChecks
    /\ subdirs = <<>>
    /\ deployed = <<>>
    /\ success_count = 0
    /\ mpc = "idle"
    /\ exit_status = "none"

InitLog ==
    /\ obj \in Inputs
    /\ log_limit \in 0..MaxLimit
    /\ list_sample_size \in (IF obj.t = "list" THEN 0..MaxSample ELSE {2})
    /\ pc = "ready"
    /\ output_lines = <<>>
    /\ visits = <<>>
    /\ raised = "none"
    /\ HandlerInit
    /\ RetryIdle
    /\ DynamoIdle
    /\ UtilsIdle
    /\ MainIdle

\* do_log(obj, log_limit=log_limit)
do_log ==
    /\ pc = "ready"
    /\ LET r == Run1(<<[o |-> obj, level |-> 0]>>, <<>>, <<>>, log_limit)
       IN /\ output_lines' = (IF r.raised = "none" THEN r.out ELSE <<>>)
          /\ visits' = r.visits
          /\ raised' = r.raised
    /\ obj' = AfterDoLog(obj)
    /\ pc' = "do_log"
    /\ UNCHANGED <<log_limit, list_sample_size, hvars, rvars, dbvars, uvars,
                   mvars>>

\* do_log_2(obj, log_limit=log_limit, list_sample_size=list_sample_size)
do_log_2 ==
    /\ pc = "ready"
    /\ LET r == Run2(<<[o |-> obj, level |-> 0]>>, <<>>, <<>>, log_limit,
                     list_sample_size)
       IN /\ output_lines' = (IF r.raised = "none" THEN r.out ELSE <<>>)
          /\ visits' = r.visits
          /\ raised' = r.raised
    /\ obj' = AfterDoLog2(obj)
    /\ pc' = "do_log_2"
    /\ UNCHANGED <<log_limit, list_sample_size, hvars, rvars, dbvars, uvars,
                   mvars>>

NextLog == do_log \/ do_log_2

SpecLog == InitLog /\ [][NextLog]_vars

\* ------------------------------------------------------------ the claims
\* what print("\n".join(output_lines)) writes
RECURSIVE Printed(_)
Printed(lines) ==
    IF lines = <<>> THEN <<>>
    ELSE IF Len(lines) = 1 THEN lines[1].text
    ELSE lines[1].text \o <<"\n">> \o Printed(Tail(lines))

Contains(text, sub) ==
    \E i \in 0..(Len(text) - Len(sub)) : SubSeq(text, i + 1, i + Len(sub)) = sub

RECURSIVE SumOf(_)
SumOf(ns) == IF ns = <<>> THEN 0 ELSE Head(ns) + SumOf(Tail(ns))

Returned == raised = "none"

SimpleMapping(o) ==
    /\ o.t = "dict"
    /\ _only_contains_str_or_number_or_bool([i \in 1..Len(o.v) |-> o.v[i][1]])
    /\ _only_contains_str_or_number_or_bool([i \in 1..Len(o.v) |-> o.v[i][2]])

PackedLines == SelectSeq(output_lines, LAMBDA l : l.kind = "packed")

C2_EveryPairOnce ==
    (pc = "do_log_2" /\ SimpleMapping(obj)) =>
        /\ Returned
        /\ Len(visits) = 1
        /\ \A k \in 1..Len(obj.v) :
              Cardinality({i \in 1..Len(visits[1].order) : visits[1].order[i] = k}) = 1

\* C3: the text do_log_2 prints for a top-level string s is s when
\* len(s) <= log_limit, else the first log_limit characters of s followed by
\* one ellipsis marker; its length is at most log_limit + len(ellipsis).
C3_TopLevelString ==
    (pc = "do_log_2" /\ obj.t = "str") =>
        /\ Returned
        /\ Len(Printed(output_lines)) <= log_limit + ellipsis_len
        /\ Len(obj.v) <= log_limit => Printed(output_lines) = obj.v
        /\ Len(obj.v) > log_limit =>
              Printed(output_lines) = SubSeq(obj.v, 1, log_limit) \o ellipsis_chars

C3_Witness ==
    /\ pc = "do_log_2"
    /\ obj.t = "str"
    /\ log_limit > 0
    /\ Len(obj.v) > log_limit
    /\ Len(Printed(output_lines)) = log_limit + 1

\* C4: do_log and do_log_2 return without raising for every value built from
\* scalars, lists and mappings with string or number keys.
C4_NeverRaises == pc \in {"do_log", "do_log_2"} => Returned

\* C5: do_log_2 renders exactly min(len(list), list_sample_size) elements of
\* a list, also when some of its elements are mappings or lists (the case
\* stated here: the elements stacked for rendering are counted).
C5_SampleSizeRendered ==
    (pc = "do_log_2" /\ obj.t = "list"
        /\ ~_only_contains_str_or_number_or_bool(obj.v)) =>
        /\ Returned
        /\ Len(visits[1].order) = Min(Len(obj.v), list_sample_size)

\* C6: the rendering of a list longer than list_sample_size contains exactly
\* one summary marker stating the number of omitted elements.
OmittedMarker(n) ==
    <<"<", ".", ".", ".", "a", "n", "d", " ">> \o StrOfNat(n)
    \o <<" ", "m", "o", "r", "e", ">">>

C6_OneOmittedMarker ==
    (pc = "do_log_2" /\ obj.t = "list" /\ Len(obj.v) > list_sample_size) =>
        Cardinality({i \in 1..Len(output_lines) :
            Contains(output_lines[i].text,
                     OmittedMarker(Len(obj.v) - list_sample_size))}) = 1

\* C7: do_log, and the non-packing branch of do_log_2, emit the key header
\* lines of a mapping in the mapping's insertion order.
C7_KeyHeadersInInsertionOrder ==
    (pc \in {"do_log", "do_log_2"} /\ obj.t = "dict" /\ Returned
        /\ ~visits[1].simple) =>
        LET keyLines == SelectSeq(output_lines,
                                  LAMBDA l : l.kind = "key" /\ l.level = 1)
        IN /\ Len(keyLines) = Len(obj.v)
           /\ \A i \in 1..Len(obj.v) : Contains(keyLines[i].text, obj.v[i][1].v)
           /\ visits[1].order = [i \in 1..Len(obj.v) |-> i]

\* C8: a mapping of simple keys and values (with at least one pair) whose
\* pairs, written key=value and separated by single spaces after the
\* indentation, total at most log_limit characters is emitted as exactly one
\* packed line holding every pair in full exactly once.
OneLineLength(items) ==
    Len(_indent(1))
    + SumOf([i \in 1..Len(items) |->
               Len(PyStr(items[i][1])) + 1 + Len(PyStr(items[i][2]))])
    + (IF Len(items) = 0 THEN 0 ELSE Len(items) - 1)

C8_FittingMappingOnOneLine ==
    (pc = "do_log_2" /\ SimpleMapping(obj) /\ Len(obj.v) > 0
        /\ OneLineLength(obj.v) <= log_limit) =>
        /\ Returned
        /\ Len(PackedLines) = 1
        /\ Len(PackedLines[1].text) = OneLineLength(obj.v)
        /\ \A k \in 1..Len(obj.v) :
              Cardinality({i \in 1..Len(PackedLines[1].entries) :
                  /\ PackedLines[1].entries[i].k = k
                  /\ PackedLines[1].entries[i].form = 1}) = 1

\* C9: a call of do_log or do_log_2 leaves the input value as it was: the
\* same keys, values and key order in every mapping, the same elements in the
\* same order in every list.
C9_InputUnchanged == [][obj' = obj]_vars

C9_Witness ==
    /\ pc = "do_log_2"
    /\ SimpleMapping(obj)
    /\ Len(obj.v) = 2
    /\ SortedKeys(obj.v) = <<2, 1>>
    /\ Returned

\* C10: for a string x with len(x) <= log_limit, the text do_log_2 prints for
\* x, given to do_log_2 again as a string with the same limit, is printed
\* unchanged.
C10_RenderIdempotent ==
    (pc = "do_log_2" /\ obj.t = "str" /\ Len(obj.v) <= log_limit /\ Returned) =>
        LET again == Run2(<<[o |-> Str(Printed(output_lines)), level |-> 0]>>,
                          <<>>, <<>>, log_limit, list_sample_size)
        IN /\ again.raised = "none"
           /\ Printed(again.out) = Printed(output_lines)

C10_Witness ==
    /\ pc = "do_log_2"
    /\ obj.t = "str"
    /\ log_limit > 0
    /\ Len(obj.v) = log_limit
    /\ Printed(output_lines) = obj.v

\* =================================================== BaseLambdaHandler
\* A str or bytes value of the handler is kept whole (a TLA+ string).  An
\* event is a dict of which the keys the handler reads are kept; Records
\* holds at most the one record the handler reads.  The logging calls of the
\* handler (BaseLambdaHandler.do_log) change nothing of the instance and are
\* taken to return normally; publish_to_sns is taken to succeed.
MaxCalls == 2

Text(s) == [t |-> "text", v |-> s]
Bytes(s) == [t |-> "bytes", v |-> s]

Event(keys, b, b64, recs, hdrs) ==
    [t |-> "event", keys |-> keys, body |-> b, isBase64Encoded |-> b64,
     Records |-> recs, headers |-> hdrs]

\* one element of event["Records"]
Record(keys, b, sns_keys, message) ==
    [keys |-> keys, body |-> b,
     Sns |-> [keys |-> sns_keys, Message |-> message]]

\* bool(x)
Truthy(x) ==
    CASE x.t = "none" -> FALSE
      [] x.t \in {"text", "bytes"} -> x.v # ""
      [] x.t = "num" -> x.v # 0
      [] x.t = "bool" -> x.v
      [] x.t \in {"dict", "list"} -> Len(x.v) > 0
      [] x.t = "event" -> x.keys # {}
      [] OTHER -> TRUE

\* isinstance(x, dict)
IsDict(x) == x.t \in {"dict", "event"}

\* key in x, for a dict x and a str key
HasKey(x, key) ==
    CASE x.t = "event" -> key \in x.keys
      [] x.t = "dict" -> \E i \in 1..Len(x.v) : x.v[i][1] = Text(key)
      [] OTHER -> FALSE

\* x[key]
GetItem(x, key) ==
    LET i == CHOOSE i \in 1..Len(x.v) : x.v[i][1] = Text(key) IN x.v[i][2]

\* the JSON documents the sample texts hold
JsonK1 == Dict(<< <<Text("k"), Num(1)>> >>)
JsonError == Dict(<< <<Text("error"), Text("x")>> >>)

\* json.loads(raw): ok is FALSE where it raises JSONDecodeError, TypeError
\* or ValueError
json_loads(raw) ==
    IF raw.t \notin {"text", "bytes"} THEN [ok |-> FALSE, v |-> None]
    ELSE CASE raw.v = "null" -> [ok |-> TRUE, v |-> None]
           [] raw.v = "5" -> [ok |-> TRUE, v |-> Num(5)]
           [] raw.v = "[1]" -> [ok |-> TRUE, v |-> List(<<Num(1)>>)]
           [] raw.v = "{\"k\": 1}" -> [ok |-> TRUE, v |-> JsonK1]
           [] raw.v = "{\"error\": \"x\"}" -> [ok |-> TRUE, v |-> JsonError]
           [] OTHER -> [ok |-> FALSE, v |-> None]

\* base64.b64decode(raw)
b64decode(raw) ==
    IF raw.t # "text" THEN [raised |-> "TypeError", v |-> None]
    ELSE CASE raw.v = "" -> [raised |-> "none", v |-> Bytes("")]
           [] raw.v = "eyJrIjogMX0=" ->
                [raised |-> "none", v |-> Bytes("{\"k\": 1}")]
           [] raw.v = "cGxhaW4=" -> [raised |-> "none", v |-> Bytes("plain")]
           [] raw.v = "null" -> [raised |-> "none", v |-> Bytes("(9e e9 65)")]
           [] OTHER -> [raised |-> "binascii.Error", v |-> None]

\* the raw body of an event without a "body" key
records_body(ev) ==
    IF "Records" \in ev.keys /\ Len(ev.Records) > 0 THEN
        IF "body" \in ev.Records[1].keys THEN ev.Records[1].body
        ELSE IF /\ "Sns" \in ev.Records[1].keys
                /\ "Message" \in ev.Records[1].Sns.keys
        THEN ev.Records[1].Sns.Message
        ELSE ev
    ELSE ev

\* the raw body without the Base64 step
raw_body_undecoded(ev) ==
    IF "body" \in ev.keys THEN [raised |-> "none", v |-> ev.body]
    ELSE [raised |-> "none", v |-> records_body(ev)]

\* the raw body _load_body_from_event takes from the event
raw_body(ev) ==
    IF "body" \in ev.keys THEN
        IF "isBase64Encoded" \in ev.keys /\ Truthy(ev.isBase64Encoded)
        THEN b64decode(ev.body)
        ELSE [raised |-> "none", v |-> ev.body]
    ELSE [raised |-> "none", v |-> records_body(ev)]

\* the extraction proper: what is returned (ret), what is left in self.body
\* and what is raised
extract_body(ev, b) ==
    LET raw == raw_body(ev) IN
    IF raw.raised # "none"
    THEN [raised |-> raw.raised, ret |-> None, body |-> b]
    ELSE IF ~Truthy(raw.v)
    THEN [raised |-> "none", ret |-> None, body |-> raw.v]
    ELSE IF IsDict(raw.v)
    THEN [raised |-> "none", ret |-> raw.v, body |-> raw.v]
    ELSE LET j == json_loads(raw.v) IN
         IF j.ok THEN [raised |-> "none", ret |-> j.v, body |-> j.v]
         ELSE [raised |-> "none", ret |-> raw.v, body |-> raw.v]

\* extracts also when the instance holds a body already
_load_body_ignoring_existing(ev, b) ==
    IF ev.t = "none" THEN [raised |-> "none", ret |-> None, body |-> b]
    ELSE extract_body(ev, b)

\* self._load_body_from_event() with self.event = ev and self.body = b
_load_body_from_event(ev, b) ==
    IF ev.t = "none" THEN [raised |-> "none", ret |-> None, body |-> b]
    ELSE IF b.t # "none" THEN [raised |-> "none", ret |-> b, body |-> b]
    ELSE extract_body(ev, b)

\* ------------------------------------------------------- _do_the_job
\* one entry of the trace: a method of the handler that was invoked, with
\* the message it was given (None where it takes none)
Invoked(hook, arg) == [hook |-> hook, arg |-> arg]

\* the job_return of an invocation in which a hook raised
ErrorJobReturn(b) ==
    Dict(<< <<Text("error"), Text("str(e)")>>,
            <<Text("class_name"), Text("__name__")>>,
            <<Text("payload"), b>>,
            <<Text("lambda_context"), Text("LambdaContext")>> >>)

\* the end of _do_the_job with the costs accounted before the listeners
\* are called
FinishJobCostsFirst(tr, jr, h) ==
    [raised |-> "none", job_return |-> jr,
     trace |-> tr \o <<Invoked("_account_execution_costs", None)>>
                  \o <<Invoked("_call_listeners", jr)>>
                  \o [i \in 1..h.listeners |-> Invoked("publish_to_sns", jr)]]

\* _call_listeners and _account_execution_costs at the end of _do_the_job
FinishJob(tr, jr, h) ==
    [raised |-> "none", job_return |-> jr,
     trace |-> tr \o <<Invoked("_call_listeners", jr)>>
                  \o [i \in 1..h.listeners |-> Invoked("publish_to_sns", jr)]
                  \o <<Invoked("_account_execution_costs", None)>>]

\* the except clause of _do_the_job, entered with trace tr and with
\* self.job_return = jr: it reads the attributes of the context, then calls
\* _on_error, whose _send_error_notification calls self.body.get
ExceptClause(b, ctx, h, tr, jr) ==
    IF ctx # "LambdaContext"
    THEN [raised |-> "AttributeError", job_return |-> jr, trace |-> tr]
    ELSE LET tr1 == tr \o <<Invoked("_on_error", None)>> IN
         IF Truthy(b) /\ ~IsDict(b)
         THEN [raised |-> "AttributeError", job_return |-> ErrorJobReturn(b),
               trace |-> tr1]
         ELSE FinishJob(
                  tr1 \o (IF h.error_topic
                          THEN <<Invoked("publish_to_sns", None)>>
                          ELSE <<>>),
                  ErrorJobReturn(b), h)

\* _do_the_job without the test for an "error" key: _handle is called
\* whatever the body is
_do_the_job_always_handle(b, ctx, h) ==
    LET t0 == <<Invoked("_security_check", None)>>
        t1 == t0 \o <<Invoked("_before_handle", None)>>
        t2 == t1 \o <<Invoked("_handle", None)>>
        t3 == t2 \o <<Invoked("_after_handle", None)>>
    IN  IF h.security = "raise" THEN ExceptClause(b, ctx, h, t0, None)
        ELSE IF h.security = "False"
        THEN [raised |-> "none", job_return |-> None, trace |-> t0]
        ELSE IF h.before = "raise" THEN ExceptClause(b, ctx, h, t1, None)
        ELSE IF h.handle = "raise" THEN ExceptClause(b, ctx, h, t2, None)
        ELSE IF h.after = "raise"
        THEN ExceptClause(b, ctx, h, t3, h.handle_return)
        ELSE FinishJob(t3, h.handle_return, h)

\* self._do_the_job() with self.body = b and self.context = ctx, the hooks
\* of the subclass behaving as h says
_do_the_job(b, ctx, h) ==
    LET t0 == <<Invoked("_security_check", None)>>
        t1 == t0 \o <<Invoked("_before_handle", None)>>
        error_job == Truthy(b) /\ IsDict(b) /\ HasKey(b, "error")
        t2 == t1 \o <<Invoked(IF error_job THEN "_handle_error_job"
                              ELSE "_handle", None)>>
        jr == IF error_job THEN b ELSE h.handle_return
        t3 == t2 \o <<Invoked("_after_handle", None)>>
    IN  IF h.security = "raise" THEN ExceptClause(b, ctx, h, t0, None)
        ELSE IF h.security = "False"
        THEN [raised |-> "none", job_return |-> None, trace |-> t0]
        ELSE IF h.before = "raise" THEN ExceptClause(b, ctx, h, t1, None)
        ELSE IF ~error_job /\ h.handle = "raise"
        THEN ExceptClause(b, ctx, h, t2, None)
        ELSE IF h.after = "raise" THEN ExceptClause(b, ctx, h, t3, jr)
        ELSE FinishJob(t3, jr, h)

\* response() with the message added whenever one is given
response_with_message(message) ==
    Dict(<< <<Text("statusCode"), Num(200)>>,
            <<Text("headers"),
              Dict(<< <<Text("Content-Type"), Text("application/json")>> >>)>>,
            <<Text("body"), None>>, <<Text("message"), message>> >>)

\* BaseLambdaHandler.response(message=message)
response(message) ==
    Dict(<< <<Text("statusCode"), Num(200)>>,
            <<Text("headers"),
              Dict(<< <<Text("Content-Type"), Text("application/json")>> >>)>>,
            <<Text("body"), None>> >>
         \o (IF Truthy(message) THEN << <<Text("message"), message>> >>
             ELSE <<>>))

\* ------------------------------------------------- events and hooks
\* how many topics _get_sns_topic_listeners returns
ListenerCounts == {0, 1}

SampleTexts == {"", "plain", "null", "5", "[1]", "{\"k\": 1}",
                "{\"error\": \"x\"}", "eyJrIjogMX0=", "cGxhaW4="}
RawPool == {None, Num(0), Num(5), Dict(<<>>), JsonK1, List(<<Num(1)>>)}
           \cup {Text(s) : s \in SampleTexts}
RecordRaws == {Text(""), Text("plain"), Text("{\"k\": 1}")}
RecordsPool ==
    {<<>>, <<Record({}, None, {}, None)>>, <<Record({"Sns"}, None, {}, None)>>}
    \cup {<<Record({"body"}, r, {}, None)>> : r \in RecordRaws}
    \cup {<<Record({"Sns"}, None, {"Message"}, r)>> : r \in RecordRaws}
    \cup {<<Record({"body", "Sns"}, Text("plain"), {"Message"}, r)>> :
            r \in RecordRaws}
SampleHeaders == Dict(<< <<Text("Host"), Text("h")>> >>)
EventKeys == {"body", "isBase64Encoded", "Records", "headers"}

EventPool ==
    {None} \cup UNION {
        {Event(keys, b, f, r,
               IF "headers" \in keys THEN SampleHeaders ELSE None) :
            b \in (IF "body" \in keys THEN RawPool ELSE {None}),
            f \in (IF "isBase64Encoded" \in keys
                   THEN {Bool(TRUE), Bool(FALSE)} ELSE {Bool(FALSE)}),
            r \in (IF "Records" \in keys THEN RecordsPool ELSE {<<>>})} :
        keys \in SUBSET EventKeys}

\* the events the handler is invoked with
CallEvents ==
    {None}
    \cup {Event({"body"}, Text(s), Bool(FALSE), <<>>, None) :
            s \in {"", "plain", "{\"error\": \"x\"}"}}
    \cup {Event({"body", "headers"}, Text("{\"k\": 1}"), Bool(FALSE), <<>>,
                SampleHeaders)}
    \cup {Event({"body", "isBase64Encoded"}, Text(s), Bool(TRUE), <<>>, None) :
            s \in {"plain", "eyJrIjogMX0="}}

\* a LambdaContext of the runtime, or an object without its attributes
Contexts == {"LambdaContext", "dict"}

HandleReturns ==
    {None, Text("ok"), Dict(<< <<Text("statusCode"), Num(500)>> >>)}

Hooks(sec, bef, han, ret, aft, topic, ls) ==
    [security |-> sec, before |-> bef, handle |-> han, handle_return |-> ret,
     after |-> aft, error_topic |-> topic, listeners |-> ls]

\* what the hooks of the subclass and the environment do in one invocation
HookChoices ==
    {Hooks("False", "none", "none", None, "none", FALSE, 0)}
    \cup {Hooks("raise", "none", "none", None, "none", tp, ls) :
            tp \in BOOLEAN, ls \in ListenerCounts}
    \cup {Hooks("True", "raise", "none", None, "none", tp, ls) :
            tp \in BOOLEAN, ls \in ListenerCounts}
    \cup {Hooks("True", "ok", "raise", None, "none", tp, ls) :
            tp \in BOOLEAN, ls \in ListenerCounts}
    \cup {Hooks("True", "ok", "return", r, "raise", tp, ls) :
            r \in HandleReturns, tp \in BOOLEAN, ls \in ListenerCounts}
    \cup {Hooks("True", "ok", "return", r, "ok", FALSE, ls) :
            r \in HandleReturns, ls \in ListenerCounts}

RaisedOutcome(exc) == [kind |-> "raised", exc |-> exc, value |-> None]
ReturnedOutcome(value) == [kind |-> "returned", exc |-> "none", value |-> value]

\* handler(event, context)
__call__ ==
    /\ calls < MaxCalls
    /\ \E ev \in CallEvents, ctx \in Contexts, h \in HookChoices :
        LET lb == _load_body_from_event(ev, body) IN
        /\ event' = ev
        /\ context' = ctx
        /\ IF lb.raised # "none"
           THEN /\ body' = lb.body
                /\ outcome' = RaisedOutcome(lb.raised)
                /\ hooks' = NoHooks
                /\ trace' = <<>>
                /\ UNCHANGED <<headers, job_return>>
           ELSE IF ev.t = "none"
           THEN /\ body' = lb.ret
                /\ outcome' = RaisedOutcome("TypeError")
                /\ hooks' = NoHooks
                /\ trace' = <<>>
                /\ UNCHANGED <<headers, job_return>>
           ELSE LET job == _do_the_job(lb.ret, ctx, h) IN
                /\ body' = lb.ret
                /\ headers' = (IF "headers" \in ev.keys THEN ev.headers
                               ELSE Dict(<<>>))
                /\ hooks' = h
                /\ trace' = job.trace
                /\ job_return' = job.job_return
                /\ outcome' =
                     (IF job.raised # "none" THEN RaisedOutcome(job.raised)
                      ELSE IF /\ IsDict(job.job_return)
                              /\ HasKey(job.job_return, "statusCode")
                      THEN ReturnedOutcome(job.job_return)
                      ELSE ReturnedOutcome(response(job.job_return)))
    /\ calls' = calls + 1
    /\ UNCHANGED <<logvars, uvars, mvars, rvars, dbvars>>

InitHandler ==
    LogIdle /\ HandlerInit /\ RetryIdle /\ DynamoIdle /\ UtilsIdle /\ MainIdle

NextHandler == __call__

SpecHandler == InitHandler /\ [][NextHandler]_vars

\* -------------------------------- _load_body_from_event called directly
\* the bodies an instance may hold from an earlier invocation
EarlierBodies == {None, JsonK1}

InitLoadBody ==
    /\ LogIdle
    /\ UtilsIdle
    /\ MainIdle
    /\ RetryIdle
    /\ DynamoIdle
    /\ event \in EventPool
    /\ context = "None"
    /\ body \in EarlierBodies
    /\ headers = None
    /\ job_return = None
    /\ trace = <<>>
    /\ hooks = NoHooks
    /\ outcome = NoOutcome
    /\ calls = 0

\* handler._load_body_from_event(), the instance holding event and body
load_body_from_event ==
    /\ outcome.kind = "none"
    /\ LET lb == _load_body_from_event(event, body) IN
        /\ body' = lb.body
        /\ outcome' = (IF lb.raised # "none" THEN RaisedOutcome(lb.raised)
                       ELSE ReturnedOutcome(lb.ret))
        /\ trace' = <<Invoked("_load_body_from_event", body)>>
    /\ UNCHANGED <<event, context, headers, job_return, hooks, calls,
                   logvars, uvars, mvars, rvars, dbvars>>

NextLoadBody == load_body_from_event

SpecLoadBody == InitLoadBody /\ [][NextLoadBody]_vars

\* ------------------------------------------- claims about the handler
InvokedHooks == {trace[i].hook : i \in 1..Len(trace)}
TimesInvoked(hook) == Cardinality({i \in 1..Len(trace) : trace[i].hook = hook})

\* one of _before_handle, _handle, _after_handle was invoked and raised
HookRaised ==
    \/ hooks.before = "raise" /\ "_before_handle" \in InvokedHooks
    \/ hooks.handle = "raise" /\ "_handle" \in InvokedHooks
    \/ hooks.after = "raise" /\ "_after_handle" \in InvokedHooks

Returned200 ==
    /\ outcome.kind = "returned"
    /\ HasKey(outcome.value, "statusCode")
    /\ GetItem(outcome.value, "statusCode").v = 200

\* C11: when _before_handle, _handle or _after_handle raises, __call__ does
\* not propagate the exception and returns a response with statusCode 200
\* (stated here for a LambdaContext of the runtime).
C11_HookErrorGives200 ==
    (calls > 0 /\ context = "LambdaContext" /\ HookRaised) => Returned200

\* C12: if _security_check returns False, none of _before_handle, _handle,
\* _handle_error_job, _after_handle and _call_listeners is invoked, and
\* __call__ returns a statusCode-200 response without a 'message' key.
C12_FailedSecurityCheck ==
    (calls > 0 /\ hooks.security = "False") =>
        /\ InvokedHooks \cap {"_before_handle", "_handle", "_handle_error_job",
                              "_after_handle", "_call_listeners"} = {}
        /\ Returned200
        /\ ~HasKey(outcome.value, "message")

C12_Witness ==
    /\ calls > 0
    /\ hooks.security = "False"
    /\ Truthy(body)
    /\ trace = <<Invoked("_security_check", None)>>
    /\ outcome.kind = "returned"

\* C13: in every invocation in which _security_check returns True,
\* _account_execution_costs is invoked exactly once, also when
\* _before_handle, _handle or _after_handle raises (stated here for a
\* LambdaContext of the runtime).
C13_CostsAccountedOnce ==
    (calls > 0 /\ context = "LambdaContext" /\ hooks.security = "True") =>
        TimesInvoked("_account_execution_costs") = 1

\* the body extracted from an event alone
BodyOf(ev) == _load_body_ignoring_existing(ev, None)

\* C14: after every call handler(event, context) that returns, also a
\* second or later one on the same instance, handler.body is the body
\* extracted from that call's own event.
C14_BodyOfOwnEvent ==
    (calls > 0 /\ outcome.kind = "returned") => body = BodyOf(event).ret

\* an empty str, bytes, dict or list, or None
Empty(x) ==
    CASE x.t = "none" -> TRUE
      [] x.t \in {"text", "bytes"} -> x.v = ""
      [] x.t \in {"dict", "list"} -> Len(x.v) = 0
      [] x.t = "event" -> x.keys = {}
      [] OTHER -> FALSE

\* the raw body as C15 words it
ClaimedRaw(ev) ==
    IF "body" \in ev.keys THEN ev.body
    ELSE IF /\ "Records" \in ev.keys
            /\ Len(ev.Records) > 0
            /\ "body" \in ev.Records[1].keys
    THEN ev.Records[1].body
    ELSE IF /\ "Records" \in ev.keys
            /\ Len(ev.Records) > 0
            /\ "Sns" \in ev.Records[1].keys
            /\ "Message" \in ev.Records[1].Sns.keys
    THEN ev.Records[1].Sns.Message
    ELSE ev

\* a dict unchanged, valid JSON parsed, anything else as it is
ParsedOrRaw(raw) ==
    IF IsDict(raw) THEN raw
    ELSE IF json_loads(raw).ok THEN json_loads(raw).v
    ELSE raw

\* _load_body_from_event was called on an instance whose body was None
LoadedFromNone ==
    /\ outcome.kind # "none"
    /\ Len(trace) = 1
    /\ trace[1].hook = "_load_body_from_event"
    /\ trace[1].arg.t = "none"

Base64Flagged(ev) ==
    /\ "body" \in ev.keys
    /\ "isBase64Encoded" \in ev.keys
    /\ Truthy(ev.isBase64Encoded)

\* C15 as stated: with body initially None, _load_body_from_event returns
\* None when event is None or the raw body is empty or None; otherwise the
\* raw body is event['body'], else Records[0]['body'], else
\* Records[0]['Sns']['Message'], else the event, returned unchanged if a
\* dict, parsed if valid JSON, raw otherwise.
C15_BodyAsClaimed ==
    LoadedFromNone =>
        /\ outcome.kind = "returned"
        /\ outcome.value =
             (IF event.t = "none" THEN None
              ELSE IF Empty(ClaimedRaw(event)) THEN None
              ELSE ParsedOrRaw(ClaimedRaw(event)))

\* C15 amended: as stated, except that event['body'] is Base64-decoded
\* first when event['isBase64Encoded'] is truthy (the call raises when it
\* cannot be decoded), and that None is returned for every falsy raw body
\* (also 0).
C15_BodyWithBase64 ==
    LoadedFromNone =>
        IF event.t = "none"
        THEN outcome.kind = "returned" /\ outcome.value = None
        ELSE IF Base64Flagged(event) /\ b64decode(event.body).raised # "none"
        THEN outcome.kind = "raised"
        ELSE LET raw == IF Base64Flagged(event) THEN b64decode(event.body).v
                        ELSE ClaimedRaw(event)
             IN /\ outcome.kind = "returned"
                /\ outcome.value = (IF ~Truthy(raw) THEN None
                                    ELSE ParsedOrRaw(raw))

C15_Witness ==
    /\ LoadedFromNone
    /\ event.t = "event"
    /\ Base64Flagged(event)
    /\ outcome.kind = "returned"
    /\ outcome.value = JsonK1

\* ======================================================= deploy_all.py
MaxAttempts == 4

\* what one invocation of the wrapped function does: it returns a value or
\* raises an Exception
Return(value) == [kind |-> "return", value |-> value]
Raise == [kind |-> "raise", value |-> None]

\* the wrapper of retry_on_failure after an invocation of the wrapped
\* function that did o, the counter being att and max_attempts being n;
\* gives up one failure late
wrapper_late_give_up(att, n, o) ==
    IF o.kind = "return"
    THEN [attempts |-> att, rpc |-> "done",
          result |-> ReturnedOutcome(o.value)]
    ELSE IF att + 1 > n
    THEN [attempts |-> att + 1, rpc |-> "done",
          result |-> ReturnedOutcome(Bool(FALSE))]
    ELSE [attempts |-> att + 1, rpc |-> "sleep", result |-> NoOutcome]

\* the body of the while loop of the wrapper, after the wrapped function
\* did o with attempts = att and max_attempts = n
wrapper(att, n, o) ==
    IF o.kind = "return"
    THEN [attempts |-> att, rpc |-> "done",
          result |-> ReturnedOutcome(o.value)]
    ELSE IF att + 1 = n
    THEN [attempts |-> att + 1, rpc |-> "done",
          result |-> ReturnedOutcome(Bool(FALSE))]
    ELSE [attempts |-> att + 1, rpc |-> "sleep", result |-> NoOutcome]

\* what a wrapped function may do
FuncOutcomes ==
    {Raise} \cup {Return(v) : v \in {Bool(TRUE), Bool(FALSE), None, Text("ok")}}
Delays == {1, 5}

InitRetry ==
    /\ LogIdle
    /\ UtilsIdle
    /\ MainIdle
    /\ HandlerInit
    /\ DynamoIdle
    /\ max_attempts \in 0..MaxAttempts
    /\ delay \in Delays
    /\ attempts = 0
    /\ func_log = <<>>
    /\ sleeps = <<>>
    /\ step_log = <<>>
    /\ rpc = "loop"
    /\ wrapper_result = NoOutcome

\* try: return func(*args, **kwargs) / except Exception
call_func ==
    /\ rpc = "loop"
    /\ attempts < max_attempts
    /\ \E o \in FuncOutcomes :
        LET w == wrapper(attempts, max_attempts, o) IN
        /\ func_log' = Append(func_log, o)
        /\ attempts' = w.attempts
        /\ rpc' = w.rpc
        /\ wrapper_result' = w.result
    /\ UNCHANGED <<max_attempts, delay, sleeps, step_log, logvars, uvars,
                   mvars, hvars, dbvars>>

\* time.sleep(delay)
sleep ==
    /\ rpc = "sleep"
    /\ sleeps' = Append(sleeps, delay)
    /\ rpc' = "loop"
    /\ UNCHANGED <<max_attempts, delay, attempts, func_log, step_log,
                   wrapper_result, logvars, uvars, mvars, hvars, dbvars>>

\* the return False after the while loop
loop_exit ==
    /\ rpc = "loop"
    /\ ~(attempts < max_attempts)
    /\ rpc' = "done"
    /\ wrapper_result' = ReturnedOutcome(Bool(FALSE))
    /\ UNCHANGED <<max_attempts, delay, attempts, func_log, sleeps, step_log,
                   logvars, uvars, mvars, hvars, dbvars>>

NextRetry == call_func \/ sleep \/ loop_exit

SpecRetry == InitRetry /\ [][NextRetry]_vars

\* ------------------------------------------ claims about retry_on_failure
\* an attempt that raised or returned False
Failed(o) == o.kind = "raise" \/ (o.kind = "return" /\ o.value = Bool(FALSE))

\* C16: the wrapped function is invoked again after every failed attempt
\* (one that returns False as well as one that raises) until an attempt
\* succeeds or n attempts were made, with one sleep between consecutive
\* attempts, and the wrapper returns the successful attempt's result.
C16_RetriesEveryFailure ==
    (rpc = "done" /\ max_attempts >= 1) =>
        LET m == Len(func_log) IN
        /\ m >= 1
        /\ \A i \in 1..(m - 1) : Failed(func_log[i])
        /\ Failed(func_log[m]) => m = max_attempts
        /\ Len(sleeps) = m - 1
        /\ ~Failed(func_log[m]) =>
               wrapper_result = ReturnedOutcome(func_log[m].value)

\* C17: with n >= 1 the wrapped function is invoked at most n times; when
\* every attempt raises, the wrapper returns False after exactly n
\* invocations and exactly n-1 sleeps and does not propagate the exception.
C17_AtMostNAttempts ==
    max_attempts >= 1 =>
        /\ Len(func_log) <= max_attempts
        /\ (rpc = "done" /\ \A i \in 1..Len(func_log) : func_log[i].kind = "raise")
             => /\ Len(func_log) = max_attempts
                /\ sleeps = [i \in 1..(max_attempts - 1) |-> delay]
                /\ wrapper_result = ReturnedOutcome(Bool(FALSE))

C17_Witness ==
    /\ rpc = "done"
    /\ max_attempts = 3
    /\ Len(func_log) = 3
    /\ \A i \in 1..3 : func_log[i].kind = "raise"
    /\ Len(sleeps) = 2

\* ------------------------------------------------------ deploy_module
\* The steps of deploy_module, in the order of the code: the three git
\* commands, the test for app_setup.py, the setup command, os.chmod on the
\* activate script and the deploy command.  A command succeeds ("ok"),
\* fails (run_command returns False), or raises (subprocess.run raises
\* something other than CalledProcessError).
CommandResults == {"ok", "fail", "raise"}
StepResults ==
    [checkout : CommandResults, fetch : CommandResults, pull : CommandResults,
     exists : {"ok", "fail"}, setup : CommandResults, chmod : {"ok", "raise"},
     deploy : CommandResults]

Ran(step, result) == [step |-> step, result |-> result]

\* the body stops at a step that did not succeed
StopAt(ran, result) ==
    [ran |-> ran, outcome |-> IF result = "fail" THEN Return(Bool(FALSE))
                              ELSE Raise]

\* a failed git pull does not stop the deployment
deploy_module_ignoring_pull(r) ==
    LET c == <<Ran("checkout", r.checkout)>>
        f == c \o <<Ran("fetch", r.fetch)>>
        p == f \o <<Ran("pull", r.pull)>>
        e == p \o <<Ran("exists", r.exists)>>
        u == e \o <<Ran("setup", r.setup)>>
        m == u \o <<Ran("chmod", r.chmod)>>
        d == m \o <<Ran("deploy", r.deploy)>>
    IN  IF r.checkout # "ok" THEN StopAt(c, r.checkout)
        ELSE IF r.fetch # "ok" THEN StopAt(f, r.fetch)
        ELSE IF r.exists # "ok" THEN StopAt(e, r.exists)
        ELSE IF r.setup # "ok" THEN StopAt(u, r.setup)
        ELSE IF r.chmod # "ok" THEN StopAt(m, r.chmod)
        ELSE IF r.deploy # "ok" THEN StopAt(d, r.deploy)
        ELSE [ran |-> d, outcome |-> Return(Bool(TRUE))]

\* one run of the undecorated deploy_module(module_path), the steps
\* behaving as r says: the steps it ran and what it did
deploy_module(r) ==
    LET c == <<Ran("checkout", r.checkout)>>
        f == c \o <<Ran("fetch", r.fetch)>>
        p == f \o <<Ran("pull", r.pull)>>
        e == p \o <<Ran("exists", r.exists)>>
        u == e \o <<Ran("setup", r.setup)>>
        m == u \o <<Ran("chmod", r.chmod)>>
        d == m \o <<Ran("deploy", r.deploy)>>
    IN  IF r.checkout # "ok" THEN StopAt(c, r.checkout)
        ELSE IF r.fetch # "ok" THEN StopAt(f, r.fetch)
        ELSE IF r.pull # "ok" THEN StopAt(p, r.pull)
        ELSE IF r.exists # "ok" THEN StopAt(e, r.exists)
        ELSE IF r.setup # "ok" THEN StopAt(u, r.setup)
        ELSE IF r.chmod # "ok" THEN StopAt(m, r.chmod)
        ELSE IF r.deploy # "ok" THEN StopAt(d, r.deploy)
        ELSE [ran |-> d, outcome |-> Return(Bool(TRUE))]

\* @retry_on_failure(max_attempts=3, delay=5)
deploy_max_attempts == 3
deploy_delay == 5

InitDeploy ==
    /\ LogIdle
    /\ UtilsIdle
    /\ MainIdle
    /\ HandlerInit
    /\ DynamoIdle
    /\ max_attempts = deploy_max_attempts
    /\ delay = deploy_delay
    /\ attempts = 0
    /\ func_log = <<>>
    /\ sleeps = <<>>
    /\ step_log = <<>>
    /\ rpc = "loop"
    /\ wrapper_result = NoOutcome

\* one pass of the wrapper's loop around deploy_module; step_log gets
\* the steps of this run, each with the number of the run
call_deploy_module ==
    /\ rpc = "loop"
    /\ attempts < max_attempts
    /\ \E r \in StepResults :
        LET run == deploy_module(r)
            w == wrapper(attempts, max_attempts, run.outcome)
            n == Len(func_log) + 1
        IN  /\ func_log' = Append(func_log, run.outcome)
            /\ step_log' = step_log \o
                  [i \in 1..Len(run.ran) |->
                      [run |-> n, step |-> run.ran[i].step,
                       result |-> run.ran[i].result]]
            /\ attempts' = w.attempts
            /\ rpc' = w.rpc
            /\ wrapper_result' = w.result
    /\ UNCHANGED <<max_attempts, delay, sleeps, logvars, uvars, mvars, hvars,
                   dbvars>>

NextDeploy == call_deploy_module \/ sleep

SpecDeploy == InitDeploy /\ [][NextDeploy]_vars

\* the steps before a step, in the order of the code
StepsBefore(step) ==
    CASE step = "checkout" -> {}
      [] step = "fetch" -> {"checkout"}
      [] step = "pull" -> {"checkout", "fetch"}
      [] step = "exists" -> {"checkout", "fetch", "pull"}
      [] step = "setup" -> {"checkout", "fetch", "pull", "exists"}
      [] step = "chmod" -> {"checkout", "fetch", "pull", "exists", "setup"}
      [] step = "deploy" ->
           {"checkout", "fetch", "pull", "exists", "setup", "chmod"}

SucceededInRun(n, step) ==
    \E j \in 1..Len(step_log) :
        /\ step_log[j].run = n
        /\ step_log[j].step = step
        /\ step_log[j].result = "ok"

MaxListLen == 2
MaxKeys == 2

Float(u) == [t |-> "float", v |-> u]
Decimal(u) == [t |-> "decimal", v |-> u]
Object(items) == [t |-> "object", v |-> items]

\* round(v, 10), for a v that is not half way between two results
round10(u) == ((u + 5) \div 10) * 10

\* Decimal(str(round(v, 10)))
DecimalOfFloat(x) == Decimal(round10(x.v))

\* self.__convert_to_decimal(it)
RECURSIVE __convert_to_decimal(_)
__convert_to_decimal(it) ==
    IF it.t \in {"dict", "object"} THEN
        Dict([i \in 1..Len(it.v) |->
            LET k == it.v[i][1]
                v == it.v[i][2]
            IN  IF v.t = "float" THEN <<k, DecimalOfFloat(v)>>
                ELSE IF v.t = "dict" THEN <<k, __convert_to_decimal(v)>>
                ELSE IF v.t = "list"
                THEN <<k, List([j \in 1..Len(v.v) |->
                                   __convert_to_decimal(v.v[j])])>>
                ELSE <<k, v>>])
    ELSE IF it.t = "float" THEN DecimalOfFloat(it)
    ELSE Dict(<<>>)

\* the values given to __convert_to_decimal
DynamoLeaves == {Float(20), Float(14), Text("s"), Num(1), None, Decimal(20)}
SmallDict == Dict(<< <<Text("c"), Float(20)>> >>)
InnerElems == {Float(20), Text("s"), SmallDict, List(<<Float(20)>>)}
DynamoLists == {List(e) : e \in SeqsUpTo(InnerElems, MaxListLen)}
DynamoValues ==
    DynamoLeaves \cup DynamoLists
    \cup {SmallDict, Dict(<< <<Text("l"), List(<<Float(20), SmallDict>>)>> >>),
          Object(<< <<Text("x"), Float(20)>> >>)}
DynamoKeys == <<Text("a"), Text("b"), Text("c")>>
DynamoDicts ==
    {Dict(<<>>)}
    \cup UNION {{Dict([i \in 1..n |-> <<DynamoKeys[i], vs[i]>>]) :
                    vs \in {f \in [1..n -> DynamoValues] :
                               \A i \in 2..n : f[i] \in DynamoLeaves}} :
                n \in 1..MaxKeys}
DynamoItems ==
    DynamoDicts \cup {Object(<< <<Text("x"), Float(14)>> >>), Float(14),
                      List(<<Float(20)>>), Text("s")}

InitConvert ==
    /\ LogIdle
    /\ UtilsIdle
    /\ MainIdle
    /\ HandlerInit
    /\ RetryIdle
    /\ item \in DynamoItems
    /\ converted = None
    /\ table = {}
    /\ query = [key_value |-> "none", k |-> 0, scan_index_forward |-> FALSE]
    /\ last_items = None
    /\ items_by_keys = None
    /\ dbpc = "convert"

convert_to_decimal ==
    /\ dbpc = "convert"
    /\ converted' = __convert_to_decimal(item)
    /\ dbpc' = "converted"
    /\ UNCHANGED <<item, table, query, last_items, items_by_keys, logvars,
                   uvars, mvars, hvars, rvars>>

NextConvert == convert_to_decimal

SpecConvert == InitConvert /\ [][NextConvert]_vars

\* ------------------------------------- claims about __convert_to_decimal
\* the structure C19 describes: the same keys and list lengths, every
\* float replaced by the Decimal of the same value, every other leaf kept
RECURSIVE FloatsAsDecimals(_)
FloatsAsDecimals(x) ==
    CASE x.t = "float" -> Decimal(x.v)
      [] x.t \in {"dict", "object"} ->
           Dict([i \in 1..Len(x.v) |-> <<x.v[i][1], FloatsAsDecimals(x.v[i][2])>>])
      [] x.t = "list" -> List([i \in 1..Len(x.v) |-> FloatsAsDecimals(x.v[i])])
      [] OTHER -> x

\* a value built of dicts and lists whose floats have at most 10 decimal
\* places
RECURSIVE PlainStructure(_)
PlainStructure(x) ==
    CASE x.t = "float" -> x.v % 10 = 0
      [] x.t = "dict" -> \A i \in 1..Len(x.v) : PlainStructure(x.v[i][2])
      [] x.t = "list" -> \A i \in 1..Len(x.v) : PlainStructure(x.v[i])
      [] x.t = "object" -> FALSE
      [] OTHER -> TRUE

\* C19: __convert_to_decimal returns a structure with the same keys and
\* list lengths as its input, every float at any depth of dicts and lists
\* replaced by the equivalent Decimal and every other leaf unchanged
\* (stated here for a dict input whose floats have at most 10 decimal
\* places, which round(v, 10) leaves as they are).
C19_FloatsBecomeDecimals ==
    (dbpc = "converted" /\ item.t = "dict" /\ PlainStructure(item)) =>
        converted = FloatsAsDecimals(item)

\* ------------------------------------------- _get_last_items_by_key
\* A table has a partition key "id" and a sort key "sort_key"; an item is
\* the pair of its two key values and the table is the set of its items.
MaxSortKey == 3
MaxK == 3

RECURSIVE SortedBySortKey(_, _)
SortedBySortKey(items, forward) ==
    IF items = {} THEN <<>>
    ELSE LET first == CHOOSE x \in items :
                 \A y \in items : IF forward THEN x.sort_key <= y.sort_key
                                  ELSE x.sort_key >= y.sort_key
         IN <<first>> \o SortedBySortKey(items \ {first}, forward)

\* self._table.query(KeyConditionExpression=Key(key_name).eq(key_value),
\* ScanIndexForward=scan_index_forward, Limit=k)["Items"]
QueryItems(tbl, q) ==
    LET matching == {x \in tbl : x.id = q.key_value}
        sorted == SortedBySortKey(matching, q.scan_index_forward)
    IN SubSeq(sorted, 1, Min(q.k, Len(sorted)))

\* self._get_last_items_by_key(key_name, key_value, k, scan_index_forward)
_get_last_items_by_key(tbl, q) ==
    LET items == QueryItems(tbl, q) IN
    IF Len(items) > 0 THEN List(SubSeq(items, 1, Min(q.k, Len(items))))
    ELSE None

TableItems == [id : {"a", "b"}, sort_key : 1..MaxSortKey]
Queries == [key_value : {"a", "b", "c"}, k : 1..MaxK,
            scan_index_forward : BOOLEAN]

InitQuery ==
    /\ LogIdle
    /\ UtilsIdle
    /\ MainIdle
    /\ HandlerInit
    /\ RetryIdle
    /\ item = None
    /\ converted = None
    /\ table \in SUBSET TableItems
    /\ query \in Queries
    /\ last_items = None
    /\ items_by_keys = None
    /\ dbpc = "query"

get_last_items_by_key ==
    /\ dbpc = "query"
    /\ last_items' = _get_last_items_by_key(table, query)
    /\ dbpc' = "queried"
    /\ UNCHANGED <<item, converted, table, query, items_by_keys, logvars,
                   uvars, mvars, hvars, rvars>>

NextQuery == get_last_items_by_key

SpecQuery == InitQuery /\ [][NextQuery]_vars

\* C20: _get_last_items_by_key(key_name, key_value, k) returns a list of
\* at most k items having that key value, highest sort key first by
\* default, and the empty list when no item matches.
C20_LastItemsList ==
    dbpc = "queried" =>
        /\ last_items.t = "list"
        /\ Len(last_items.v) <= query.k
        /\ \A i \in 1..Len(last_items.v) :
              /\ last_items.v[i] \in table
              /\ last_items.v[i].id = query.key_value
        /\ ~query.scan_index_forward =>
              \A i \in 1..(Len(last_items.v) - 1) :
                  last_items.v[i].sort_key > last_items.v[i + 1].sort_key
        /\ (\A x \in table : x.id # query.key_value) => last_items.v = <<>>

\* ---------------------------------------------------------------------
\* la_utils.py: get_first_non_none
\* ---------------------------------------------------------------------

MaxArgs == 2

\* a (key, value) tuple as dict.items() yields it
Tuple(k, v) == [t |-> "tuple", v |-> <<k, v>>]

\* the first element of a sequence of values that is not None, or None
RECURSIVE FirstNotNone(_)
FirstNotNone(values) ==
    IF values = <<>> THEN None
    ELSE IF Head(values) # None THEN Head(values)
    ELSE FirstNotNone(Tail(values))

\* the second loop, written over kwargs.values()
get_first_non_none_of_values(a, kw) ==
    FirstNotNone(a \o [i \in 1..Len(kw) |-> kw[i].value])

\* get_first_non_none(*args, **kwargs): the first loop returns the first
\* positional argument that is not None; the second loop walks
\* kwargs.items(), whose elements are (key, value) tuples, and a tuple is
\* never None
get_first_non_none(a, kw) ==
    IF FirstNotNone(a) # None THEN FirstNotNone(a)
    ELSE FirstNotNone([i \in 1..Len(kw) |-> Tuple(kw[i].key, kw[i].value)])

ArgValues == {None, Num(0), Text(""), Text("x")}

KwargNames == <<"a", "b", "c">>

ArgLists == UNION {[1..n -> ArgValues] : n \in 0..MaxArgs}

\* keyword arguments in the order they were written, no name twice
KwargLists ==
    {kw \in UNION {[1..n -> [key : {KwargNames[i] : i \in 1..Len(KwargNames)},
                             value : ArgValues]] : n \in 0..MaxArgs} :
        \A i, j \in 1..Len(kw) : i # j => kw[i].key # kw[j].key}

InitFirst ==
    /\ LogIdle
    /\ HandlerInit
    /\ RetryIdle
    /\ DynamoIdle
    /\ MainIdle
    /\ args \in ArgLists
    /\ kwargs \in KwargLists
    /\ first_non_none = None
    /\ upc = "call"

call_get_first_non_none ==
    /\ upc = "call"
    /\ first_non_none' = get_first_non_none(args, kwargs)
    /\ upc' = "returned"
    /\ UNCHANGED <<args, kwargs, logvars, hvars, rvars, dbvars, mvars>>

NextFirst == call_get_first_non_none

SpecFirst == InitFirst /\ [][NextFirst]_vars

\* C21: get_first_non_none returns the first value that is not None among
\* the positional arguments followed by the keyword-argument values, and
\* None when every positional and keyword argument is None.
C21_FirstNonNoneValue ==
    upc = "returned" =>
        first_non_none = get_first_non_none_of_values(args, kwargs)

\* ---------------------------------------------------------------------
\* do_log_2: the forms of a packed pair, the order of the pairs, progress
\* ---------------------------------------------------------------------

\* s cut to its first n characters and marked, or s itself when it is short
Shortened(s, n) == IF Len(s) <= n THEN s ELSE Slice(s, n) \o ellipsis_chars

\* the texts of the four forms of a pair appended to the line `before`
FullKeyFullValue(pre, key, value) == {pre \o key \o <<"=">> \o value}

FullKeyCutValue(pre, key, value) ==
    {pre \o key \o <<"=">> \o Slice(value, n) \o ellipsis_chars :
        n \in 1..(Len(value) - 1)}

CutKeyFullValue(pre, key, value) ==
    {pre \o Slice(key, n) \o ellipsis_chars \o <<"=">> \o value :
        n \in 1..(Len(key) - 1)}

BothCutToHalf(before, pre, key, value, limit) ==
    LET budget == limit - Len(before) - Len(pre) - 1 - 2 * ellipsis_len
        half == budget \div 2
    IN  IF half < 1 THEN {}
        ELSE {pre \o Shortened(key, half) \o <<"=">> \o Shortened(value, half)}

FormTexts(f, before, pre, key, value, limit) ==
    IF f = 1 THEN FullKeyFullValue(pre, key, value)
    ELSE IF f = 2 THEN FullKeyCutValue(pre, key, value)
    ELSE IF f = 3 THEN CutKeyFullValue(pre, key, value)
    ELSE BothCutToHalf(before, pre, key, value, limit)

FormFits(f, before, pre, key, value, limit) ==
    \E t \in FormTexts(f, before, pre, key, value, limit) :
        Len(before) + Len(t) <= limit

\* the text of a packed line before its e-th entry was appended
RECURSIVE LineBefore(_, _)
LineBefore(l, e) ==
    IF e = 1 THEN _indent(l.level)
    ELSE LineBefore(l, e - 1) \o l.entries[e - 1].text

\* the form the e-th entry of packed line l of the mapping o was given: the
\* first form its text is a fitting instance of, 0 when it is of none
FormUsed(o, l, e) ==
    LET before == LineBefore(l, e)
        pre == IF e = 1 THEN <<>> ELSE <<" ">>
        key == PyStr(o.v[l.entries[e].k][1])
        value == PyStr(o.v[l.entries[e].k][2])
        Is(f) == /\ l.entries[e].text \in
                       FormTexts(f, before, pre, key, value, log_limit)
                 /\ Len(before) + Len(l.entries[e].text) <= log_limit
    IN  IF Is(1) THEN 1 ELSE IF Is(2) THEN 2 ELSE IF Is(3) THEN 3
        ELSE IF Is(4) THEN 4 ELSE 0

\* C22: each pair do_log_2 appends to the current line is appended in the
\* first of the four forms (full key and value; full key, cut value; cut
\* key, full value; both cut to half the remaining budget) that keeps the
\* line within log_limit: a later form is used only when no earlier form
\* fits.
C22_FirstFormThatFits ==
    (pc = "do_log_2" /\ SimpleMapping(obj)) =>
        \A i \in 1..Len(output_lines) :
            LET l == output_lines[i] IN
            l.kind = "packed" =>
                \A e \in 1..Len(l.entries) :
                    LET before == LineBefore(l, e)
                        pre == IF e = 1 THEN <<>> ELSE <<" ">>
                        key == PyStr(obj.v[l.entries[e].k][1])
                        value == PyStr(obj.v[l.entries[e].k][2])
                    IN  /\ FormUsed(obj, l, e) \in 1..4
                        /\ \A f \in 1..(FormUsed(obj, l, e) - 1) :
                              ~FormFits(f, before, pre, key, value, log_limit)

\* a line whose second pair had to be given the third form
C22_Witness ==
    /\ pc = "do_log_2"
    /\ SimpleMapping(obj)
    /\ \E i \in 1..Len(output_lines) :
          /\ output_lines[i].kind = "packed"
          /\ Len(output_lines[i].entries) >= 2
          /\ FormUsed(obj, output_lines[i], 2) = 3

\* the positions (in the mapping) of the pairs on the packed lines, earlier
\* lines first and left to right within a line
RECURSIVE PackedOrder(_)
PackedOrder(lines) ==
    IF lines = <<>> THEN <<>>
    ELSE [e \in 1..Len(Head(lines).entries) |-> Head(lines).entries[e].k]
         \o PackedOrder(Tail(lines))

\* len(str(key)) + len(str(value)) of the pair at position k of the mapping o
WeightOf(o, k) == Len(PyStr(o.v[k][1])) + Len(PyStr(o.v[k][2]))

\* C23: in do_log_2's packed output for a mapping of simple keys and
\* values the pairs appear in ascending order of
\* len(str(key)) + len(str(value)), earlier lines first and left to right
\* within a line.
C23_PairsInAscendingWeight ==
    (pc = "do_log_2" /\ SimpleMapping(obj)) =>
        LET order == PackedOrder(PackedLines) IN
        \A a, b \in 1..Len(order) :
            a < b => WeightOf(obj, order[a]) <= WeightOf(obj, order[b])

\* a mapping whose heavier pair was inserted first and is printed last
C23_Witness ==
    /\ pc = "do_log_2"
    /\ SimpleMapping(obj)
    /\ Len(obj.v) = 2
    /\ WeightOf(obj, 1) > WeightOf(obj, 2)
    /\ PackedOrder(PackedLines) = <<2, 1>>

\* ---------------------------------------------------------------------
\* BaseLambdaHandler: error jobs and the order of the hooks
\* ---------------------------------------------------------------------

\* the invocation reached _do_the_job with a dict body that has an "error"
\* key
ErrorJob ==
    /\ calls > 0
    /\ hooks # NoHooks
    /\ IsDict(body)
    /\ HasKey(body, "error")

ListenersGiven(message) ==
    \E i \in 1..Len(trace) : trace[i] = Invoked("_call_listeners", message)

\* C24 (as stated): when the body is a dict containing the key 'error',
\* _handle is not invoked; _handle_error_job is invoked instead, and its
\* result (the body, by default) becomes job_return and is the message
\* passed to the listeners.
C24_ErrorJobForwarded ==
    ErrorJob =>
        /\ TimesInvoked("_handle") = 0
        /\ TimesInvoked("_handle_error_job") = 1
        /\ job_return = body
        /\ ListenersGiven(body)

\* C24 (amended): when the body is a dict containing the key 'error',
\* _handle is not invoked; if the security check passes and _before_handle
\* does not raise, _handle_error_job is invoked instead, and if
\* _after_handle does not raise either, its result (the body, by default)
\* becomes job_return and is the message passed to the listeners.
C24_ErrorJobForwardedUnlessStopped ==
    ErrorJob =>
        /\ TimesInvoked("_handle") = 0
        /\ (hooks.security = "True" /\ hooks.before # "raise") =>
              TimesInvoked("_handle_error_job") = 1
        /\ (hooks.security = "True" /\ hooks.before # "raise"
                /\ hooks.after # "raise") =>
              /\ job_return = body
              /\ ListenersGiven(body)

C24_Witness ==
    /\ ErrorJob
    /\ hooks.security = "True"
    /\ hooks.listeners = 1
    /\ "_handle_error_job" \in InvokedHooks
    /\ \E i \in 1..Len(trace) : trace[i] = Invoked("publish_to_sns", body)

\* the hooks of the invocation in the order they were invoked, without the
\* security check and the publications _call_listeners makes
HookOrder ==
    LET kept == SelectSeq(trace, LAMBDA x :
                    x.hook \notin {"_security_check", "publish_to_sns"})
    IN  [i \in 1..Len(kept) |-> kept[i].hook]

\* C25: in every invocation in which the security check passes and no hook
\* raises, each hook runs exactly once, in the order _before_handle,
\* _handle (or _handle_error_job), _after_handle, _call_listeners,
\* _account_execution_costs.
C25_HooksOnceInOrder ==
    (calls > 0 /\ hooks.security = "True" /\ ~HookRaised) =>
        \E h \in {"_handle", "_handle_error_job"} :
            HookOrder = <<"_before_handle", h, "_after_handle",
                          "_call_listeners", "_account_execution_costs">>

C25_Witness ==
    /\ calls > 0
    /\ hooks.security = "True"
    /\ ~HookRaised
    /\ hooks.listeners = 1
    /\ "_handle" \in InvokedHooks
    /\ Len(trace) = 7

\* ---------------------------------------------------------------------
\* deploy_all.py: main
\* ---------------------------------------------------------------------

MaxModules == 3

\* the names the project directories may have
ModuleNames == {"stack-a", "stack-b", "stack-c", "stack-d"}

\* what os.listdir may give after the filter: no name twice
SubdirLists ==
    {ds \in UNION {[1..n -> ModuleNames] : n \in 0..MaxModules} :
        \A i, j \in 1..Len(ds) : i # j => ds[i] # ds[j]}

\* what one call deploy_module(module_path) does in the try statement
DeployResults == {"True", "False", "raise"}

\* one iteration of the loop that gave up at the first exception
deploy_one_stop_on_raise(r, done, count, dirs) ==
    [deployed |-> Append(done, r),
     success_count |-> IF r = "True" THEN count + 1 ELSE count,
     mpc |-> IF r = "raise" \/ Len(done) + 1 = Len(dirs)
             THEN "summary" ELSE "loop"]

\* one iteration of "for subdir in subdirs": a true result is counted, a
\* false one is not, an exception is caught and the loop continues
deploy_one(r, done, count, dirs) ==
    [deployed |-> Append(done, r),
     success_count |-> IF r = "True" THEN count + 1 ELSE count,
     mpc |-> IF Len(done) + 1 = Len(dirs) THEN "summary" ELSE "loop"]

InitMain ==
    /\ LogIdle
    /\ HandlerInit
    /\ RetryIdle
    /\ DynamoIdle
    /\ UtilsIdle
    /\ checks = NoChecks
    /\ subdirs = <<>>
    /\ deployed = <<>>
    /\ success_count = 0
    /\ mpc = "login"
    /\ exit_status = "none"

\* if not run_command("aws sso login", shell=True): sys.exit(1)
aws_sso_login ==
    /\ mpc = "login"
    /\ \E ok \in BOOLEAN :
        /\ checks' = [checks EXCEPT !.login = IF ok THEN "ok" ELSE "failed"]
        /\ mpc' = (IF ok THEN "which" ELSE "done")
        /\ exit_status' = (IF ok THEN exit_status ELSE "1")
    /\ UNCHANGED <<subdirs, deployed, success_count, logvars, hvars, rvars,
                   dbvars, uvars>>

\* if not shutil.which("python3.11"): return False
which_python ==
    /\ mpc = "which"
    /\ \E found \in BOOLEAN :
        /\ checks' = [checks EXCEPT !.python = IF found THEN "ok" ELSE "failed"]
        /\ mpc' = (IF found THEN "listdir" ELSE "done")
        /\ exit_status' = (IF found THEN exit_status ELSE "0")
    /\ UNCHANGED <<subdirs, deployed, success_count, logvars, hvars, rvars,
                   dbvars, uvars>>

\* subdirs = [...]; if not subdirs: return
list_subdirs ==
    /\ mpc = "listdir"
    /\ \E ds \in SubdirLists :
        /\ subdirs' = ds
        /\ mpc' = (IF ds = <<>> THEN "done" ELSE "loop")
        /\ exit_status' = (IF ds = <<>> THEN "0" ELSE exit_status)
    /\ UNCHANGED <<checks, deployed, success_count, logvars, hvars, rvars,
                   dbvars, uvars>>

\* the body of the loop for the next directory
call_deploy_module_of_main ==
    /\ mpc = "loop"
    /\ \E r \in DeployResults :
        LET s == deploy_one(r, deployed, success_count, subdirs) IN
        /\ deployed' = s.deployed
        /\ success_count' = s.success_count
        /\ mpc' = s.mpc
    /\ UNCHANGED <<checks, subdirs, exit_status, logvars, hvars, rvars,
                   dbvars, uvars>>

\* if success_count != len(subdirs): sys.exit(1)
summary ==
    /\ mpc = "summary"
    /\ exit_status' = (IF success_count # Len(subdirs) THEN "1" ELSE "0")
    /\ mpc' = "done"
    /\ UNCHANGED <<checks, subdirs, deployed, success_count, logvars, hvars,
                   rvars, dbvars, uvars>>

NextMain ==
    \/ aws_sso_login
    \/ which_python
    \/ list_subdirs
    \/ call_deploy_module_of_main
    \/ summary

SpecMain == InitMain /\ [][NextMain]_vars

\* C26: once the AWS login and the Python check pass and at least one
\* project directory is found, main attempts deploy_module for every
\* directory found, also when earlier modules fail or raise, and exits with
\* status 1 if and only if at least one module was not deployed
\* successfully.
C26_EveryModuleAttempted ==
    (mpc = "done" /\ checks.login = "ok" /\ checks.python = "ok"
        /\ subdirs # <<>>) =>
        /\ Len(deployed) = Len(subdirs)
        /\ exit_status = "1" <=>
              \E i \in 1..Len(deployed) : deployed[i] # "True"

C26_Witness ==
    /\ mpc = "done"
    /\ Len(subdirs) = 3
    /\ deployed = <<"raise", "False", "True">>
    /\ success_count = 1
    /\ exit_status = "1"

\* the mappings and lists of simple values do_log_2 packed in this call
PackedVisits == SelectSeq(visits, LAMBDA v : v.simple)

\* C27: for every mapping or list of simple values and every log_limit,
\* limits smaller than the indentation included, the packing loops end
\* and each pair or element is attempted at most twice: once on the
\* current line and at most once more on a fresh line.
C27_AtMostTwoAttempts ==
    pc = "do_log_2" =>
        \A i \in 1..Len(PackedVisits) :
            \A k \in DOMAIN PackedVisits[i].attempts :
                PackedVisits[i].attempts[k] <= 2

\* a pair or element that did not fit the current line and was attempted
\* once more on a fresh line
C27_Witness ==
    /\ pc = "do_log_2"
    /\ Returned
    /\ \E i \in 1..Len(PackedVisits) :
          \E k \in DOMAIN PackedVisits[i].attempts :
              PackedVisits[i].attempts[k] = 2

\* C28: every packed line do_log_2 emits that contains at least one
\* key=value pair or indexed element is at most log_limit characters long,
\* indentation included.
C28_PackedLineWithinLimit ==
    pc = "do_log_2" =>
        \A i \in 1..Len(PackedLines) :
            PackedLines[i].entries # <<>> =>
                Len(PackedLines[i].text) <= log_limit

\* a packed line of a list that is exactly log_limit long and ends with a
\* cut element
C28_Witness ==
    /\ pc = "do_log_2"
    /\ obj.t = "list"
    /\ \E i \in 1..Len(PackedLines) :
          LET l == PackedLines[i] IN
          /\ l.entries # <<>>
          /\ l.entries[Len(l.entries)].form = 2
          /\ Len(l.text) = log_limit
          /\ Len(l.text) > Len(_indent(l.level))

\* ---------------------------------------------------------------------
\* dynamodb_utils.py: _get_by_keys
\* ---------------------------------------------------------------------

MaxSortValue == 2

\* the arguments of one call; index_name is left at its default
KeysQuery(pk, name, value, forward, limit) ==
    [primary_key_value |-> pk, sort_key_name |-> name,
     sort_key_value |-> value, scan_index_forward |-> forward,
     limit |-> limit]

\* self._get_by_keys("id", pk, sort_key_name, sort_key_value,
\* scan_index_forward=..., limit=...): the sort key joins the key condition
\* only when `sort_key_name and sort_key_value` is true; the query returns
\* the matching items in sort-key order, at most Limit of them
_get_by_keys(tbl, q) ==
    LET with_sort_key == Truthy(q.sort_key_name) /\ Truthy(q.sort_key_value)
        matching == {x \in tbl :
                        /\ x.id = q.primary_key_value
                        /\ with_sort_key => Num(x.sort_key) = q.sort_key_value}
        sorted == SortedBySortKey(matching, q.scan_index_forward)
        n == IF q.limit = None THEN Len(sorted)
             ELSE Min(q.limit.v, Len(sorted))
    IN  List(SubSeq(sorted, 1, n))

\* the items of a table whose sort key is a number that may be 0
KeyedItems == [id : {"a", "b"}, sort_key : 0..MaxSortValue]

KeysQueries ==
    {KeysQuery(pk, name, value, forward, limit) :
        pk \in {"a", "b"},
        name \in {None, Text("sort_key")},
        value \in {None} \cup {Num(n) : n \in 0..MaxSortValue},
        forward \in BOOLEAN,
        limit \in {None, Num(1)}}

InitGetByKeys ==
    /\ LogIdle
    /\ HandlerInit
    /\ RetryIdle
    /\ UtilsIdle
    /\ MainIdle
    /\ item = None
    /\ converted = None
    /\ table \in SUBSET KeyedItems
    /\ query \in KeysQueries
    /\ last_items = None
    /\ items_by_keys = None
    /\ dbpc = "get"

get_by_keys ==
    /\ dbpc = "get"
    /\ items_by_keys' = _get_by_keys(table, query)
    /\ dbpc' = "got"
    /\ UNCHANGED <<item, converted, table, query, last_items, logvars, hvars,
                   rvars, uvars, mvars>>

NextGetByKeys == get_by_keys

SpecGetByKeys == InitGetByKeys /\ [][NextGetByKeys]_vars

\* C29: when _get_by_keys is given both a sort_key_name and a
\* sort_key_value, every returned item has that partition key value and
\* that sort key value, also when sort_key_value is falsy (0, "").
C29_ItemsOfBothKeys ==
    (dbpc = "got" /\ query.sort_key_name # None
        /\ query.sort_key_value # None) =>
        \A i \in 1..Len(items_by_keys.v) :
            /\ items_by_keys.v[i].id = query.primary_key_value
            /\ Num(items_by_keys.v[i].sort_key) = query.sort_key_value
====
